---- MODULE Spec2Model ----
(***************************************************************************)
(* Backfill batch sequencer (beacon-chain/sync/backfill/batcher.go) and    *)
(* the backfill service driver loop (beacon-chain/sync/backfill/service.go)*)
(* with its p2p workers.                                                   *)
(*                                                                         *)
(* Three specifications are given over the same variables:                 *)
(*   SeqSpec  - the batchSequencer driven through its methods in any       *)
(*              order and with any arguments;                              *)
(*   Spec     - Service.Start: the driver loop, the worker pool and the    *)
(*              workers (FairSpec adds the scheduling fairness);           *)
(*   SlotSpec - MinimumBackfillSlot called with any configuration.         *)
(***************************************************************************)
EXTENDS Integers, Sequences, FiniteSets, TLC

\* ------------------------------------------------------------------ bounds
MaxSlot == 3
MaxWorkers == 3
MaxSeqLen == 2
MaxSize == 2
MaxFailures == 1
SlotBits == 4
MaxSlotsPerEpoch == 4

\* Let(F, e) is F(e) with e evaluated once, as an assignment to a local does.
Let(F(_), e) == CHOOSE y \in {F(x) : x \in {e}} : TRUE

\* ------------------------------------------------------------- batch state
batchNil == "Nil"
batchInit == "Init"
batchSequenced == "Sequenced"
batchErrRetryable == "ErrRetryable"
batchImportable == "Importable"
batchImportComplete == "ImportComplete"
batchEndSequence == "EndSequence"

batchState ==
  {batchNil, batchInit, batchSequenced, batchErrRetryable, batchImportable,
   batchImportComplete, batchEndSequence}

errNone == "nil"
errMaxBatches == "errMaxBatches"
errEndSequence == "errEndSequence"
errCannotDecreaseMinimum == "errCannotDecreaseMinimum"

Slots == 0..MaxSlot

\* A batch value: the slot range [begin, end) and its lifecycle state.
batch == [begin : Slots, end : Slots, state : batchState]

\* The zero value of the batch type (what make([]batch, n) holds).
zeroBatch == [begin |-> 0, end |-> 0, state |-> batchNil]

withState(b, s) == [b EXCEPT !.state = s]

withRetryableError(b) == withState(b, batchErrRetryable)

replaces(b, r) == b.begin = r.begin /\ b.end = r.end

\* ----------------------------------------------------------------- batcher
before(r, upTo) ==
  IF upTo <= r.min
    THEN [begin |-> upTo, end |-> upTo, state |-> batchEndSequence]
    ELSE [begin |-> IF upTo > r.size + r.min THEN upTo - r.size ELSE r.min,
          end |-> upTo, state |-> batchInit]

\* Faulty variant: the next batch is taken below the end of the given batch
beforeBatchFromEnd(r, upTo) == before(r, upTo.end)

beforeBatch(r, upTo) == before(r, upTo.begin)

remaining(r, upTo) ==
  IF r.min >= upTo THEN 0
  ELSE LET delta == upTo - r.min
       IN IF delta % r.size # 0 THEN (delta \div r.size) + 1
          ELSE delta \div r.size

\* ---------------------------------------------------------- batchSequencer
\* A sequencer value c is the record [batcher |-> ..., seq |-> ...].
newBatchSequencer(seqLen, mn, mx, sz) ==
  [batcher |-> [min |-> mn, max |-> mx, size |-> sz],
   seq |-> [i \in 1..seqLen |-> zeroBatch]]

\* Faulty variant: the floor is assigned before the comparison is acted on
moveMinimumAssignFirst(c, mn) ==
  IF mn < c.batcher.min
    THEN [c |-> [c EXCEPT !.batcher.min = mn], err |-> errCannotDecreaseMinimum]
    ELSE [c |-> [c EXCEPT !.batcher.min = mn], err |-> errNone]

\* Faulty variant: the floor is assigned without the comparison
moveMinimumNoCheck(c, mn) == [c |-> [c EXCEPT !.batcher.min = mn], err |-> errNone]

\* moveMinimum returns the sequencer after the call and the error.
moveMinimum(c, mn) ==
  IF mn < c.batcher.min
    THEN [c |-> c, err |-> errCannotDecreaseMinimum]
    ELSE [c |-> [c EXCEPT !.batcher.min = mn], err |-> errNone]

minimum(c) == c.batcher.min

countWithState(c, s) == Cardinality({i \in 1..Len(c.seq) : c.seq[i].state = s})

\* Faulty variant: the state is tested before the entry is replaced
RECURSIVE updateScanStale(_, _, _, _)
updateScanStale(sq, b, i, done) ==
  IF i > Len(sq) THEN [seq |-> sq, done |-> done]
  ELSE LET step(s1) ==
             IF sq[i].state = batchImportComplete
               THEN updateScanStale(s1, b, i + 1, done + 1)
               ELSE updateScanStale([s1 EXCEPT ![i - done] = s1[i]], b, i + 1, done)
       IN Let(step, IF replaces(b, sq[i]) THEN [sq EXCEPT ![i] = b] ELSE sq)

\* Faulty variant: an entry is matched by the begin of its range alone
RECURSIVE updateScanByBegin(_, _, _, _)
updateScanByBegin(sq, b, i, done) ==
  IF i > Len(sq) THEN [seq |-> sq, done |-> done]
  ELSE LET step(s1) ==
             IF s1[i].state = batchImportComplete
               THEN updateScanByBegin(s1, b, i + 1, done + 1)
               ELSE updateScanByBegin([s1 EXCEPT ![i - done] = s1[i]], b, i + 1, done)
       IN Let(step, IF b.begin = sq[i].begin THEN [sq EXCEPT ![i] = b] ELSE sq)

\* The first loop of update: position i (1-based), done counter, in place.
RECURSIVE updateScan(_, _, _, _)
updateScan(sq, b, i, done) ==
  IF i > Len(sq) THEN [seq |-> sq, done |-> done]
  ELSE LET step(s1) ==
             IF s1[i].state = batchImportComplete
               THEN updateScan(s1, b, i + 1, done + 1)
               ELSE updateScan([s1 EXCEPT ![i - done] = s1[i]], b, i + 1, done)
       IN Let(step, IF replaces(b, sq[i]) THEN [sq EXCEPT ![i] = b] ELSE sq)

\* The second loop of update: refill positions i..len below last.
RECURSIVE updateFill(_, _, _, _)
updateFill(r, sq, i, last) ==
  IF i > Len(sq) THEN sq
  ELSE LET step(st) == updateFill(r, st.seq, i + 1, st.nb)
       IN Let(step, [seq |-> [sq EXCEPT ![i] = beforeBatch(r, last)],
                     nb |-> beforeBatch(r, last)])

\* Faulty variant: the refill starts one position early
updateOffByOne(c, b) ==
  LET fill(sc) ==
        [c EXCEPT !.seq = updateFill(c.batcher, sc.seq, Len(sc.seq) - sc.done,
                                     sc.seq[Len(sc.seq)])]
  IN Let(fill, updateScan(c.seq, b, 1, 0))

update(c, b) ==
  LET fill(sc) ==
        [c EXCEPT !.seq = updateFill(c.batcher, sc.seq, Len(sc.seq) - sc.done + 1,
                                     sc.seq[Len(sc.seq)])]
  IN Let(fill, updateScan(c.seq, b, 1, 0))

\* Faulty variant: batches waiting for import are sequenced again
RECURSIVE sequenceScanAgain(_, _, _, _)
sequenceScanAgain(r, sq, s, i) ==
  IF i > Len(sq) THEN [seq |-> sq, s |-> s]
  ELSE
    LET next(st) == sequenceScanAgain(r, st.seq, st.s, i + 1)
    IN Let(next,
        CASE sq[i].state \in {batchInit, batchErrRetryable, batchImportable} ->
               LET nb == withState(sq[i], batchSequenced)
               IN [seq |-> [sq EXCEPT ![i] = nb], s |-> Append(s, nb)]
          [] sq[i].state = batchNil ->
               LET b == IF i = 1 THEN before(r, r.max) ELSE beforeBatch(r, sq[i - 1])
                   nb == withState(b, batchSequenced)
               IN [seq |-> [sq EXCEPT ![i] = nb], s |-> Append(s, nb)]
          [] sq[i].state = batchEndSequence ->
               [seq |-> sq, s |-> IF Len(s) = 0 THEN Append(s, sq[i]) ELSE s]
          [] OTHER -> [seq |-> sq, s |-> s])

\* Faulty variant: the end of the sequence is never reported
RECURSIVE sequenceScanNoSentinel(_, _, _, _)
sequenceScanNoSentinel(r, sq, s, i) ==
  IF i > Len(sq) THEN [seq |-> sq, s |-> s]
  ELSE
    LET next(st) == sequenceScanNoSentinel(r, st.seq, st.s, i + 1)
    IN Let(next,
        CASE sq[i].state \in {batchInit, batchErrRetryable} ->
               LET nb == withState(sq[i], batchSequenced)
               IN [seq |-> [sq EXCEPT ![i] = nb], s |-> Append(s, nb)]
          [] sq[i].state = batchNil ->
               LET b == IF i = 1 THEN before(r, r.max) ELSE beforeBatch(r, sq[i - 1])
                   nb == withState(b, batchSequenced)
               IN [seq |-> [sq EXCEPT ![i] = nb], s |-> Append(s, nb)]
          [] OTHER -> [seq |-> sq, s |-> s])

\* Faulty variant: a batch to be fetched again is marked but not returned
RECURSIVE sequenceScanDropRetry(_, _, _, _)
sequenceScanDropRetry(r, sq, s, i) ==
  IF i > Len(sq) THEN [seq |-> sq, s |-> s]
  ELSE
    LET next(st) == sequenceScanDropRetry(r, st.seq, st.s, i + 1)
    IN Let(next,
        CASE sq[i].state \in {batchInit, batchErrRetryable} ->
               LET nb == withState(sq[i], batchSequenced)
               IN [seq |-> [sq EXCEPT ![i] = nb], s |-> s]
          [] sq[i].state = batchNil ->
               LET b == IF i = 1 THEN before(r, r.max) ELSE beforeBatch(r, sq[i - 1])
                   nb == withState(b, batchSequenced)
               IN [seq |-> [sq EXCEPT ![i] = nb], s |-> Append(s, nb)]
          [] sq[i].state = batchEndSequence ->
               [seq |-> sq, s |-> IF Len(s) = 0 THEN Append(s, sq[i]) ELSE s]
          [] OTHER -> [seq |-> sq, s |-> s])

\* The loop of sequence: window sq, output s, position i.
RECURSIVE sequenceScan(_, _, _, _)
sequenceScan(r, sq, s, i) ==
  IF i > Len(sq) THEN [seq |-> sq, s |-> s]
  ELSE
    LET next(st) == sequenceScan(r, st.seq, st.s, i + 1)
    IN Let(next,
        CASE sq[i].state \in {batchInit, batchErrRetryable} ->
               LET nb == withState(sq[i], batchSequenced)
               IN [seq |-> [sq EXCEPT ![i] = nb], s |-> Append(s, nb)]
          [] sq[i].state = batchNil ->
               LET b == IF i = 1 THEN before(r, r.max) ELSE beforeBatch(r, sq[i - 1])
                   nb == withState(b, batchSequenced)
               IN [seq |-> [sq EXCEPT ![i] = nb], s |-> Append(s, nb)]
          [] sq[i].state = batchEndSequence ->
               \* the break leaves the switch, not the loop
               [seq |-> sq, s |-> IF Len(s) = 0 THEN Append(s, sq[i]) ELSE s]
          [] OTHER -> [seq |-> sq, s |-> s])

\* sequence returns the sequencer after the call, the batches and the error.
sequence(c) ==
  LET result(sc) ==
        IF Len(sc.s) = 0
          THEN [c |-> [c EXCEPT !.seq = sc.seq], ret |-> <<>>, err |-> errMaxBatches]
          ELSE [c |-> [c EXCEPT !.seq = sc.seq], ret |-> sc.s, err |-> errNone]
  IN Let(result, sequenceScan(c.batcher, c.seq, <<>>, 1))

numTodo(c) ==
  IF Len(c.seq) = 0 THEN 0
  ELSE LET lowest == c.seq[Len(c.seq)]
           base == IF lowest.state # batchEndSequence
                     THEN remaining(c.batcher, lowest.begin) ELSE 0
       IN base + Cardinality({i \in 1..Len(c.seq) :
                  c.seq[i].state \notin {batchEndSequence, batchImportComplete, batchNil}})

RECURSIVE importableScan(_, _)
importableScan(sq, i) ==
  IF i > Len(sq) THEN <<>>
  ELSE IF sq[i].state = batchImportable
         THEN <<sq[i]>> \o importableScan(sq, i + 1)
         ELSE <<>>

\* Faulty variant: every Importable entry is returned, wherever it is
importableAnywhere(c) == SelectSeq(c.seq, LAMBDA b : b.state = batchImportable)

importable(c) == importableScan(c.seq, 1)

\* ------------------------------------------------------------------- state
VARIABLES
  batchSeq,    \* Service.batchSeq: [batcher |-> [min, max, size], seq |-> window]
  call,        \* the last batchSequencer method call: name, argument, returned value, error
  ordered,     \* SeqSpec: every update so far came in the order update assumes
  pc,          \* position of Service.Start
  todo,        \* the pool's todo channel (FIFO)
  done,        \* the pool's done channel (FIFO)
  workers,     \* per worker: <<b>> while it holds batch b between receive and send, else <<>>
  endSeq,      \* end-of-sequence batches the pool has been handed
  imported,    \* the calls of the batchImporter, in order: batch, window head, outcome
  handed,      \* batches handed to the pool as work, in order
  failures,    \* retryable failures so far (fetch, verify or import)
  stopped,     \* the workers that have returned from run
  ms           \* the minimumSlotter: does the retention floor stay fixed or rise

vars == <<batchSeq, call, ordered, pc, todo, done, workers, endSeq, imported, handed, failures,
          stopped, ms>>

driverVars == <<pc, todo, done, workers, endSeq, imported, handed, failures, stopped, ms>>

idle == <<>>

noCall == [name |-> "new", arg |-> <<>>, ret |-> <<>>, err |-> errNone]

\* ---------------------------------------------- the sequencer on its own
\* Arguments a caller may pass to update: a batch in any state whose range is
\* the range of some window entry (in any order), or the range [0, MaxSlot)
\* that stands for the batches matching no entry.
updateArgs(c) ==
  {b \in batch :
     \/ \E i \in 1..Len(c.seq) : replaces(b, c.seq[i])
     \/ (b.begin = 0 /\ b.end = MaxSlot)}

\* The order update assumes of its callers (batcher.go:51-53): a batch is
\* marked ImportComplete only when no other batch lies above it in the
\* window, and it is a batch the sequencer gave out (never the zero state).
inOrder(c, b) ==
  /\ b.state # batchNil
  /\ b.state = batchImportComplete =>
       \A i \in 1..Len(c.seq) :
         replaces(b, c.seq[i]) => \A j \in 1..i : replaces(b, c.seq[j])

SeqInit ==
  /\ \E seqLen \in 1..MaxSeqLen, mn \in Slots, mx \in Slots, sz \in 1..MaxSize :
       batchSeq = newBatchSequencer(seqLen, mn, mx, sz)
  /\ call = noCall
  /\ ordered = TRUE
  /\ pc = "api"
  /\ todo = <<>>
  /\ done = <<>>
  /\ workers = <<>>
  /\ endSeq = <<>>
  /\ imported = <<>>
  /\ handed = <<>>
  /\ failures = 0
  /\ stopped = {}
  /\ ms = "fixed"

CallSequence ==
  LET r == sequence(batchSeq)
  IN /\ batchSeq' = r.c
     /\ call' = [name |-> "sequence", arg |-> <<>>, ret |-> r.ret, err |-> r.err]
     /\ UNCHANGED <<ordered, driverVars>>

CallUpdate ==
  \E b \in updateArgs(batchSeq) :
    /\ batchSeq' = update(batchSeq, b)
    /\ call' = [name |-> "update", arg |-> <<b>>, ret |-> <<>>, err |-> errNone]
    /\ ordered' = (ordered /\ inOrder(batchSeq, b))
    /\ UNCHANGED driverVars

CallMoveMinimum ==
  \E mn \in Slots :
    LET r == moveMinimum(batchSeq, mn)
    IN /\ batchSeq' = r.c
       /\ call' = [name |-> "moveMinimum", arg |-> <<mn>>, ret |-> <<>>, err |-> r.err]
       /\ UNCHANGED <<ordered, driverVars>>

CallImportable ==
  /\ call' = [name |-> "importable", arg |-> <<>>, ret |-> importable(batchSeq),
              err |-> errNone]
  /\ UNCHANGED <<batchSeq, ordered, driverVars>>

CallNumTodo ==
  /\ call' = [name |-> "numTodo", arg |-> <<>>, ret |-> <<numTodo(batchSeq)>>,
              err |-> errNone]
  /\ UNCHANGED <<batchSeq, ordered, driverVars>>

SeqNext ==
  \/ CallSequence
  \/ CallUpdate
  \/ CallMoveMinimum
  \/ CallImportable
  \/ CallNumTodo

SeqSpec == SeqInit /\ [][SeqNext]_vars

\* ------------------------------------------------------------ worker pool
\* Todo: an end-of-sequence batch is kept by the pool, any other batch goes
\* to the workers' todo channel.  p is [todo, endSeq, handed].
Todo(p, b) ==
  IF b.state = batchEndSequence
    THEN [p EXCEPT !.endSeq = Append(@, b)]
    ELSE [p EXCEPT !.todo = Append(@, b), !.handed = Append(@, b)]

\* Faulty variant: the first batch of the list is not handed to the pool
RECURSIVE TodoAllSkipFirst(_, _, _)
TodoAllSkipFirst(p, batches, i) ==
  IF i > Len(batches) THEN p
  ELSE TodoAllSkipFirst(IF i = 1 THEN p ELSE Todo(p, batches[i]), batches, i + 1)

RECURSIVE TodoAll(_, _, _)
TodoAll(p, batches, i) ==
  IF i > Len(batches) THEN p ELSE TodoAll(Todo(p, batches[i]), batches, i + 1)

\* No batch is with the pool: none queued, none held by a worker, none finished.
poolIdle ==
  /\ todo = <<>>
  /\ done = <<>>
  /\ \A w \in DOMAIN workers : workers[w] = idle

\* Complete reports the end of the sequence once the pool holds the sentinel
\* and no work is left with it.
completeEnds == endSeq # <<>> /\ poolIdle

\* Faulty variant: the batch is sent back in the state it came in
handleAsReceived(b, ok) == b

\* p2pWorker.handle: fetch and verify succeed or fail.
handle(b, ok) == IF ok THEN withState(b, batchImportable) ELSE withRetryableError(b)

ctxLive == pc \notin {"returned", "exited"}

\* ------------------------------------------------------------ the service
\* The importer loop of importBatches over the snapshot imp: the first k
\* batches import, and when k < Len(imp) the next one fails.  st is the
\* sequencer c and the log of importer calls; each call is logged with the
\* batch, the head of the window at the call, and its outcome.
RECURSIVE importLoop(_, _, _, _)
importLoop(st, imp, i, k) ==
  IF i > Len(imp) THEN st
  ELSE LET ib == imp[i]
           entry == [b |-> ib, head |-> st.c.seq[1], ok |-> i <= k]
           next(st1) == importLoop(st1, imp, i + 1, k)
       IN IF i <= k
            THEN Let(next, [c |-> update(st.c, withState(ib, batchImportComplete)),
                            log |-> Append(st.log, entry)])
            ELSE [c |-> update(st.c, withState(ib, batchErrRetryable)),
                  log |-> Append(st.log, entry)]

Init ==
  /\ \E n \in 1..MaxWorkers, mn \in Slots, mx \in Slots, sz \in 1..MaxSize :
       /\ batchSeq = newBatchSequencer(n, mn, mx, sz)
       /\ workers = [w \in 1..n |-> idle]
  /\ call = noCall
  /\ ordered = TRUE
  /\ pc = "start"
  /\ todo = <<>>
  /\ done = <<>>
  /\ endSeq = <<>>
  /\ imported = <<>>
  /\ handed = <<>>
  /\ failures = 0
  /\ stopped = {}
  /\ ms \in {"fixed", "rising"}

\* Service.Start up to the loop: nothing to backfill, or initBatches.
StartService ==
  /\ pc = "start"
  /\ IF batchSeq.batcher.max < minimum(batchSeq)
       THEN /\ pc' = "returned"
            /\ UNCHANGED <<batchSeq, call, todo, endSeq, handed>>
       ELSE LET r == sequence(batchSeq)
                p == TodoAll([todo |-> todo, endSeq |-> endSeq, handed |-> handed], r.ret, 1)
            IN /\ batchSeq' = r.c
               /\ call' = [name |-> "sequence", arg |-> <<>>, ret |-> r.ret, err |-> r.err]
               /\ todo' = p.todo
               /\ endSeq' = p.endSeq
               /\ handed' = p.handed
               /\ pc' = IF r.err = errNone THEN "complete" ELSE "fatal"
  /\ UNCHANGED <<ordered, done, workers, imported, failures, stopped, ms>>

\* updateComplete: the pool reports the end of the sequence, or hands back a
\* finished batch for update.
UpdateComplete ==
  /\ pc = "complete"
  /\ IF completeEnds
       THEN /\ pc' = "exited"
            /\ UNCHANGED <<batchSeq, call, done>>
       ELSE /\ done # <<>>
            /\ batchSeq' = update(batchSeq, Head(done))
            /\ call' = [name |-> "update", arg |-> <<Head(done)>>, ret |-> <<>>,
                        err |-> errNone]
            /\ done' = Tail(done)
            /\ pc' = "import"
  /\ UNCHANGED <<ordered, todo, workers, endSeq, imported, handed, failures, stopped, ms>>

ImportBatches ==
  /\ pc = "import"
  /\ LET imp == importable(batchSeq)
     IN \E k \in 0..Len(imp) :
          /\ k < Len(imp) => failures < MaxFailures
          /\ LET st == importLoop([c |-> batchSeq, log |-> imported], imp, 1, k)
             IN /\ batchSeq' = st.c
                /\ imported' = st.log
          /\ failures' = IF k < Len(imp) THEN failures + 1 ELSE failures
          /\ call' = [name |-> "importable", arg |-> <<>>, ret |-> imp, err |-> errNone]
  /\ pc' = "moveMinimum"
  /\ UNCHANGED <<ordered, todo, done, workers, endSeq, handed, stopped, ms>>

\* The floors the minimumSlotter may report: the clock never runs backwards.
minimumSlot == IF ms = "fixed" THEN {minimum(batchSeq)}
               ELSE {m \in Slots : m >= minimum(batchSeq)}

MoveMinimum ==
  /\ pc = "moveMinimum"
  /\ \E m \in minimumSlot :
       LET r == moveMinimum(batchSeq, m)
       IN /\ batchSeq' = r.c
          /\ call' = [name |-> "moveMinimum", arg |-> <<m>>, ret |-> <<>>, err |-> r.err]
          /\ pc' = IF r.err = errNone THEN "schedule" ELSE "fatal"
  /\ UNCHANGED <<ordered, todo, done, workers, endSeq, imported, handed, failures, stopped, ms>>

ScheduleTodos ==
  /\ pc = "schedule"
  /\ LET r == sequence(batchSeq)
         p == TodoAll([todo |-> todo, endSeq |-> endSeq, handed |-> handed], r.ret, 1)
     IN /\ batchSeq' = r.c
        /\ call' = [name |-> "sequence", arg |-> <<>>, ret |-> r.ret, err |-> r.err]
        /\ todo' = p.todo
        /\ endSeq' = p.endSeq
        /\ handed' = p.handed
  /\ pc' = "complete"
  /\ UNCHANGED <<ordered, done, workers, imported, failures, stopped, ms>>

\* The workers run from pool.Spawn on, which Start reaches when it does not
\* return early.
spawned == pc \notin {"start", "returned"}

\* The done channel holds as many batches as the window has entries.
doneCap == Len(workers)

\* p2pWorker.run: receive a batch from todo ...
WorkerReceive(w) ==
  /\ w \in DOMAIN workers
  /\ spawned
  /\ w \notin stopped
  /\ workers[w] = idle
  /\ todo # <<>>
  /\ workers' = [workers EXCEPT ![w] = <<Head(todo)>>]
  /\ todo' = Tail(todo)
  /\ UNCHANGED <<batchSeq, call, ordered, pc, done, endSeq, imported, handed, failures,
                 stopped, ms>>

\* ... and send the handled batch on done, once done has room for it.
WorkerSend(w) ==
  /\ w \in DOMAIN workers
  /\ workers[w] # idle
  /\ Len(done) < doneCap
  /\ \E ok \in BOOLEAN :
       /\ ~ok => failures < MaxFailures
       /\ done' = Append(done, handle(workers[w][1], ok))
       /\ failures' = IF ok THEN failures ELSE failures + 1
  /\ workers' = [workers EXCEPT ![w] = idle]
  /\ UNCHANGED <<batchSeq, call, ordered, pc, todo, endSeq, imported, handed, stopped, ms>>

\* p2pWorker.run: waiting in the select, the worker sees the context
\* cancelled and returns.
WorkerExit(w) ==
  /\ w \in DOMAIN workers
  /\ spawned
  /\ ~ctxLive
  /\ w \notin stopped
  /\ workers[w] = idle
  /\ stopped' = stopped \cup {w}
  /\ UNCHANGED <<batchSeq, call, ordered, pc, todo, done, workers, endSeq, imported, handed,
                 failures, ms>>

Driver ==
  \/ StartService
  \/ UpdateComplete
  \/ ImportBatches
  \/ MoveMinimum
  \/ ScheduleTodos

Worker(w) ==
  \/ WorkerReceive(w)
  \/ WorkerSend(w)
  \/ WorkerExit(w)

Next ==
  \/ Driver
  \/ \E w \in DOMAIN workers : Worker(w)

Spec == Init /\ [][Next]_vars

Workers == \E w \in DOMAIN workers : Worker(w)

\* The driver is a goroutine that runs whenever it can, and so are the
\* workers: a worker that can receive or send eventually does.
FairSpec ==
  /\ Init
  /\ [][Next]_vars
  /\ WF_vars(Driver)
  /\ WF_vars(Workers)

\* ------------------------------------------------- sequencer properties
seqLen == Len(batchSeq.seq)

\* B1 for a window: each batch begins where the next one ends.
Tiled(sq) == \A i \in 1..(Len(sq) - 1) : sq[i].begin = sq[i + 1].end

\* C1 (as stated): B1 holds in every sequencer state, whatever the order
\* and state of the batches passed to update.
C1_TilingAnyOrder == \A i \in 1..(seqLen - 1) : batchSeq.seq[i].begin = batchSeq.seq[i + 1].end

\* C1 (amended): B1 holds in every sequencer state reached by sequence,
\* moveMinimum and updates that come in the order update assumes (a batch
\* is ImportComplete only when no other batch lies above it in the window,
\* and no update carries the zero state).
C1_TilingInOrder == ordered => Tiled(batchSeq.seq)

\* C1 witness: an in-order run has compacted the window and refilled it
\* with a batch that is not the first of the sequence.
C1_Witness ==
  /\ ordered
  /\ call.name = "update"
  /\ call.arg[1].state = batchImportComplete
  /\ seqLen >= 2
  /\ batchSeq.seq[1].state \in {batchSequenced, batchImportable}
  /\ batchSeq.seq[1].end < batchSeq.batcher.max
  /\ batchSeq.seq[seqLen].state = batchInit

\* C3: importable returns exactly the longest prefix of the window whose
\* entries are Importable, and leaves the window as it was.
C3_ImportablePrefix ==
  [][call'.name = "importable" =>
       LET n == Len(call'.ret)
       IN /\ batchSeq' = batchSeq
          /\ n <= seqLen
          /\ call'.ret = SubSeq(batchSeq.seq, 1, n)
          /\ \A i \in 1..n : batchSeq.seq[i].state = batchImportable
          /\ n < seqLen => batchSeq.seq[n + 1].state # batchImportable]_vars

\* C3 witness: an Importable batch is held back by a batch above it.
C3_Witness ==
  /\ call.name = "importable"
  /\ call.ret = <<>>
  /\ seqLen >= 2
  /\ batchSeq.seq[1].state = batchSequenced
  /\ batchSeq.seq[2].state = batchImportable

\* The number of entries update(b) removes from window sq.
removedBy(sq, b) ==
  IF b.state = batchImportComplete
    THEN Cardinality({i \in 1..Len(sq) : replaces(b, sq[i]) \/ sq[i].state = batchImportComplete})
    ELSE Cardinality({i \in 1..Len(sq) : sq[i].state = batchImportComplete /\ ~replaces(b, sq[i])})

\* C4: after update(b) no window entry is ImportComplete; the trailing
\* positions hold fresh batches chained below the lowest batch.
C4_NoImportComplete ==
  [][call'.name = "update" =>
       LET d == removedBy(batchSeq.seq, call'.arg[1])
           sq == batchSeq'.seq
       IN /\ \A i \in 1..Len(sq) : sq[i].state # batchImportComplete
          /\ \A i \in (seqLen - d + 1)..seqLen :
               /\ sq[i].state \in {batchInit, batchEndSequence}
               /\ sq[i].end = IF i = seqLen - d + 1 THEN batchSeq.seq[seqLen].begin
                              ELSE sq[i - 1].begin]_vars

\* C4 witness: update has just removed a completed batch and refilled.
C4_Witness ==
  /\ call.name = "update"
  /\ call.arg[1].state = batchImportComplete
  /\ \A i \in 1..seqLen : ~replaces(call.arg[1], batchSeq.seq[i])
  /\ batchSeq.seq[seqLen].state = batchInit
  /\ batchSeq.seq[seqLen].end = call.arg[1].begin

\* C5: a successful sequence returns only Sequenced or EndSequence batches;
\* the Sequenced ones are the window entries it has just sequenced; entries
\* in any other state are neither returned nor changed.
C5_SequenceResult ==
  [][(call'.name = "sequence" /\ call'.err = errNone) =>
       LET fresh == {i \in 1..seqLen :
                       batchSeq.seq[i].state \in {batchNil, batchInit, batchErrRetryable}}
           work == SelectSeq(call'.ret, LAMBDA b : b.state = batchSequenced)
           sq == batchSeq'.seq
       IN /\ \A k \in 1..Len(call'.ret) :
               call'.ret[k].state \in {batchSequenced, batchEndSequence}
          /\ Len(work) = Cardinality(fresh)
          /\ \A k \in 1..Len(work) :
               \E i \in fresh : /\ sq[i] = work[k]
                                /\ Cardinality({j \in fresh : j < i}) = k - 1
          /\ \A i \in fresh :
               /\ sq[i].state = batchSequenced
               /\ batchSeq.seq[i].state # batchNil =>
                    replaces(sq[i], batchSeq.seq[i])
          /\ \A i \in (1..seqLen) \ fresh : sq[i] = batchSeq.seq[i]]_vars

\* C5 witness: sequence returned a retried batch and skipped one in flight.
C5_Witness ==
  /\ call.name = "sequence"
  /\ call.err = errNone
  /\ seqLen >= 2
  /\ Len(call.ret) = 1
  /\ call.ret[1].state = batchSequenced
  /\ call.ret[1] = batchSeq.seq[2]
  /\ batchSeq.seq[1].state = batchImportable

\* C6: moveMinimum below the floor fails with errCannotDecreaseMinimum and
\* leaves the sequencer as it was.
C6_DecreaseRejected ==
  [][(call'.name = "moveMinimum" /\ call'.arg[1] < minimum(batchSeq)) =>
       /\ call'.err = errCannotDecreaseMinimum
       /\ batchSeq' = batchSeq]_vars

\* C6 witness: a decrease was refused on a window that holds work.
C6_Witness ==
  /\ call.name = "moveMinimum"
  /\ call.err = errCannotDecreaseMinimum
  /\ call.arg[1] < minimum(batchSeq)
  /\ batchSeq.seq[1].state = batchSequenced

\* C7: the floor never decreases; only a successful moveMinimum changes it,
\* and that changes nothing but the floor.
C7_MonotoneFloor ==
  [][/\ minimum(batchSeq') >= minimum(batchSeq)
     /\ minimum(batchSeq') # minimum(batchSeq) =>
          /\ call'.name = "moveMinimum"
          /\ call'.err = errNone
          /\ batchSeq' = [batchSeq EXCEPT !.batcher.min = call'.arg[1]]
     /\ call'.name = "moveMinimum" =>
          /\ batchSeq'.seq = batchSeq.seq
          /\ batchSeq'.batcher.max = batchSeq.batcher.max
          /\ batchSeq'.batcher.size = batchSeq.batcher.size]_vars

\* C7 witness: the floor has risen above a batch that stays in the window.
C7_Witness ==
  /\ call.name = "moveMinimum"
  /\ call.err = errNone
  /\ minimum(batchSeq) = call.arg[1]
  /\ batchSeq.seq[1].state = batchSequenced
  /\ batchSeq.seq[1].begin < batchSeq.seq[1].end
  /\ batchSeq.seq[1].begin < minimum(batchSeq)

\* C10: a second update with the same batch changes nothing.
C10_UpdateIdempotent ==
  call.name = "update" => update(batchSeq, call.arg[1]) = batchSeq

\* C10 witness: a completed batch was compacted out and its range is in
\* the window again, so the second update finds entries to replace.
C10_Witness ==
  /\ call.name = "update"
  /\ call.arg[1].state = batchImportComplete
  /\ \E i \in 1..seqLen : replaces(call.arg[1], batchSeq.seq[i])

\* ---------------------------------------------------- service properties
\* The batches the importer has imported, in order.
importedOk == SelectSeq(imported, LAMBDA e : e.ok)

\* Every batch handed to the importer was at the head of the window: no
\* batch of the window lay above it.
importedAtHead == \A k \in 1..Len(imported) : replaces(imported[k].b, imported[k].head)

\* The imported ranges are descending and contiguous.
importedContiguous ==
  \A k \in 1..(Len(importedOk) - 1) : importedOk[k + 1].b.end = importedOk[k].b.begin

\* Entry k of window sq is Importable below a batch that is not.
blocked(sq, k) ==
  /\ sq[k].state = batchImportable
  /\ \E j \in 1..(k - 1) : sq[j].state # batchImportable

\* C2: imports are strictly ordered newest-to-oldest: a batch is handed to
\* the importer only at the head of the window, the imported ranges are
\* descending and contiguous, and a batch that is Importable below a failed
\* or outstanding batch stays in the window, Importable.
C2_StrictImportOrder ==
  [][/\ \A k \in 1..Len(imported') : replaces(imported'[k].b, imported'[k].head)
     /\ \A k \in 1..(Len(SelectSeq(imported', LAMBDA e : e.ok)) - 1) :
          SelectSeq(imported', LAMBDA e : e.ok)[k + 1].b.end
            = SelectSeq(imported', LAMBDA e : e.ok)[k].b.begin
     /\ \A k \in 1..seqLen :
          blocked(batchSeq.seq, k) =>
            \E i \in 1..seqLen : batchSeq'.seq[i] = batchSeq.seq[k]]_vars

\* The tiling of [mn, upTo) by ranges of width sz taken downward from upTo,
\* the lowest one truncated at mn.
RECURSIVE tiling(_, _, _)
tiling(mn, upTo, sz) ==
  IF upTo <= mn THEN <<>>
  ELSE LET lo == IF upTo - sz > mn THEN upTo - sz ELSE mn
       IN <<[begin |-> lo, end |-> upTo]>> \o tiling(mn, lo, sz)

rangeOf(b) == [begin |-> b.begin, end |-> b.end]

rangesOf(bs) == [k \in 1..Len(bs) |-> rangeOf(bs[k])]

isPrefix(a, b) == Len(a) <= Len(b) /\ a = SubSeq(b, 1, Len(a))

expectedTiling == tiling(minimum(batchSeq), batchSeq.batcher.max, batchSeq.batcher.size)

\* C8: with a fixed floor and no failure, the batches handed to the pool
\* and then imported are exactly the tiling of [min, max): no other range
\* and no empty range is sequenced as work.
C8_ExactTiling ==
  (ms = "fixed" /\ failures = 0) =>
    /\ isPrefix(rangesOf(handed), expectedTiling)
    /\ isPrefix([k \in 1..Len(importedOk) |-> rangeOf(importedOk[k].b)], expectedTiling)
    /\ pc = "exited" =>
         /\ rangesOf(handed) = expectedTiling
         /\ [k \in 1..Len(importedOk) |-> rangeOf(importedOk[k].b)] = expectedTiling

\* Every slot of [min, max) lies in an imported range.
covered ==
  \A sl \in minimum(batchSeq)..(batchSeq.batcher.max - 1) :
    \E k \in 1..Len(importedOk) : importedOk[k].b.begin <= sl /\ sl < importedOk[k].b.end

\* C9: with a fixed floor, fair workers and failures that end, the service
\* reaches the state where all of [min, max) is imported, the sentinel has
\* been emitted and the driver has exited.
C9_Termination ==
  (ms = "fixed" /\ pc = "start" /\ minimum(batchSeq) <= batchSeq.batcher.max)
    ~> (pc = "exited" /\ covered /\ endSeq # <<>>)

\* C9 witness: the service has exited after importing three batches, the
\* last of them after a retry.
C9_Witness ==
  /\ ms = "fixed"
  /\ pc = "exited"
  /\ covered
  /\ endSeq # <<>>
  /\ failures > 0
  /\ Len(importedOk) >= 3
  /\ importedOk[3].b.begin = minimum(batchSeq)
  /\ importedOk[3].b.begin < importedOk[3].b.end

\* ------------------------------------------------ update in either order
\* The window after update(a); update(b) is the window after update(b); update(a).
commutes(c, a, b) == update(update(c, a), b) = update(update(c, b), a)

inWindow(c, b) == \E i \in 1..Len(c.seq) : replaces(b, c.seq[i])

\* The batch update puts in the first position it refills.
nextBelow(c) == beforeBatch(c.batcher, c.seq[Len(c.seq)])

\* The batches tried in pairs: any state, with the range of a window entry
\* or the range the next refill gives out.
commArgs(c) == {b \in batch : inWindow(c, b) \/ replaces(b, nextBelow(c))}

\* The ranges of a and b differ, a's being the lower one.  commutes is
\* symmetric in a and b, so each pair of different ranges is taken once.
rangeBelow(a, b) == a.begin < b.begin \/ (a.begin = b.begin /\ a.end < b.end)

\* C11 (as stated): update(a) and update(b) commute for every two batches
\* whose ranges differ.
C11_UpdateCommutes ==
  \A a, b \in commArgs(batchSeq) : rangeBelow(a, b) => commutes(batchSeq, a, b)

\* C11 (amended): update(a) and update(b) commute for every two batches
\* whose ranges differ and of which neither is ImportComplete, which is
\* what the workers send on Done (Importable or ErrRetryable).
C11_UpdateCommutesDone ==
  \A a, b \in commArgs(batchSeq) :
    (rangeBelow(a, b) /\ a.state # batchImportComplete /\ b.state # batchImportComplete)
      => commutes(batchSeq, a, b)

\* C11 witness: two batches with different ranges are in flight and the
\* lower one has come back first.
C11_Witness ==
  /\ call.name = "update"
  /\ call.arg[1].state = batchImportable
  /\ seqLen >= 2
  /\ batchSeq.seq[1].state = batchSequenced
  /\ batchSeq.seq[2] = call.arg[1]
  /\ ~replaces(batchSeq.seq[1], batchSeq.seq[2])
  /\ batchSeq.seq[1].begin < batchSeq.seq[1].end
  /\ batchSeq.seq[2].begin < batchSeq.seq[2].end

\* ------------------------------------------------- batches in the pool
\* The batches outstanding to the pool: queued on todo, held by a worker,
\* or waiting on done for the driver's update.
heldBy(w) == IF workers[w] = idle THEN <<>> ELSE workers[w]

RECURSIVE heldFrom(_)
heldFrom(w) == IF w > Len(workers) THEN <<>> ELSE heldBy(w) \o heldFrom(w + 1)

outstanding == todo \o heldFrom(1) \o done

\* The window entries update(b) overwrites.
overwrittenBy(b) == {i \in 1..seqLen : replaces(b, batchSeq.seq[i])}

\* C12: no two outstanding batches have the same range, no two window
\* entries share a range while either is Sequenced or Importable, and the
\* update of a batch a worker sent back overwrites exactly one entry.
C12_OneInFlightPerRange ==
  /\ \A i, j \in 1..Len(outstanding) :
       i # j => ~replaces(outstanding[i], outstanding[j])
  /\ \A i, j \in 1..seqLen :
       (i # j /\ replaces(batchSeq.seq[i], batchSeq.seq[j]))
         => batchSeq.seq[i].state \notin {batchSequenced, batchImportable}
  /\ \A k \in 1..Len(done) : Cardinality(overwrittenBy(done[k])) = 1

\* The ranges that have been handed to the pool as work.
handedRanges == {rangeOf(handed[k]) : k \in 1..Len(handed)}

\* C13 (B2): the window is as long as the worker count in every state, the
\* batches outstanding to the pool never outnumber the workers, and a new
\* range is handed out only in place of a batch that was imported and
\* compacted out of the window: the ranges handed out so far are at most
\* the window length plus the number of imported batches.
C13_BoundedWindow ==
  /\ seqLen = Len(workers)
  /\ Len(outstanding) <= Len(workers)
  /\ Cardinality(handedRanges) <= seqLen + Len(importedOk)

\* ------------------------------------------------- MinimumBackfillSlot
\* primitives.Slot and primitives.Epoch are unsigned integers of SlotBits
\* bits (64 in the program); arithmetic on them wraps.
Modulus == 2 ^ SlotBits

Uint == 0..(Modulus - 1)

\* slots.MaxSafeEpoch: the largest epoch whose start slot can be represented.
MaxSafeEpoch(spe) == (Modulus - 1) \div spe

\* slots.UnsafeEpochStart: the first slot of the epoch, without overflow check.
UnsafeEpochStart(spe, e) == (spe * e) % Modulus

\* Faulty variant: the epoch count is not clamped to MaxSafeEpoch
MinimumBackfillSlotNoClamp(spe, minEpochs, current) ==
  LET offset == UnsafeEpochStart(spe, minEpochs)
  IN IF offset > current THEN 0 ELSE (current - offset) % Modulus

\* MinimumBackfillSlot with helpers.MinEpochsForBlockRequests() = minEpochs
\* and SLOTS_PER_EPOCH = spe.
MinimumBackfillSlot(spe, minEpochs, current) ==
  LET oe == IF minEpochs > MaxSafeEpoch(spe) THEN MaxSafeEpoch(spe) ELSE minEpochs
      offset == UnsafeEpochStart(spe, oe)
  IN IF offset > current THEN 0 ELSE (current - offset) % Modulus

\* The function on its own: called with any configuration and current slot.
SlotInit ==
  /\ batchSeq = newBatchSequencer(1, 0, 0, 1)
  /\ call = noCall
  /\ ordered = TRUE
  /\ pc = "slot"
  /\ todo = <<>>
  /\ done = <<>>
  /\ workers = <<>>
  /\ endSeq = <<>>
  /\ imported = <<>>
  /\ handed = <<>>
  /\ failures = 0
  /\ stopped = {}
  /\ ms = "fixed"

CallMinimumBackfillSlot ==
  /\ pc = "slot"
  /\ \E spe \in 1..MaxSlotsPerEpoch, minEpochs \in Uint, current \in Uint :
       call' = [name |-> "MinimumBackfillSlot", arg |-> <<spe, minEpochs, current>>,
                ret |-> <<MinimumBackfillSlot(spe, minEpochs, current)>>, err |-> errNone]
  /\ UNCHANGED <<batchSeq, ordered, driverVars>>

SlotSpec == SlotInit /\ [][CallMinimumBackfillSlot]_vars

\* The smaller of two numbers, and the difference cut off at zero, in the
\* integers (no wrapping).
intMin(x, y) == IF x < y THEN x ELSE y

monus(x, y) == IF x - y > 0 THEN x - y ELSE 0

\* C14: MinimumBackfillSlot(c) is max(0, c - min(MIN_EPOCHS_FOR_BLOCK_REQUESTS,
\* MaxSafeEpoch) * SLOTS_PER_EPOCH) computed in the integers: 0 whenever the
\* offset exceeds c, and the offset itself is representable.
C14_MinimumBackfillSlot ==
  call.name = "MinimumBackfillSlot" =>
    LET spe == call.arg[1]
        minEpochs == call.arg[2]
        current == call.arg[3]
        offset == intMin(minEpochs, MaxSafeEpoch(spe)) * spe
    IN /\ offset < Modulus
       /\ call.ret[1] = monus(current, offset)

\* C14 witness: the configured epoch count is beyond MaxSafeEpoch and the
\* offset exceeds the current slot, so the result is 0.
C14_Witness ==
  /\ call.name = "MinimumBackfillSlot"
  /\ call.arg[2] > MaxSafeEpoch(call.arg[1])
  /\ call.arg[1] * call.arg[2] >= Modulus
  /\ call.arg[3] < MaxSafeEpoch(call.arg[1]) * call.arg[1]
  /\ call.ret[1] = 0

\* ------------------------------------------------ the end of the sequence
\* The batch the claim expects at the floor.
sentinel(upTo) == [begin |-> upTo, end |-> upTo, state |-> batchEndSequence]

\* C15: a window position filled with before(upTo), upTo <= min, holds the
\* EndSequence batch [upTo, upTo): when sequence fills a Nil position and
\* when update refills after compaction; sequence does not return it as
\* Sequenced work and leaves EndSequence entries as they are.
C15_SentinelAtFloor ==
  [][/\ call'.name = "sequence" =>
          \A i \in 1..seqLen :
            LET upTo == IF i = 1 THEN batchSeq.batcher.max ELSE batchSeq'.seq[i - 1].begin
            IN /\ (batchSeq.seq[i].state = batchNil /\ upTo <= minimum(batchSeq)) =>
                    /\ batchSeq'.seq[i] = sentinel(upTo)
                    /\ \A k \in 1..Len(call'.ret) :
                         call'.ret[k].state = batchSequenced
                           => ~replaces(call'.ret[k], sentinel(upTo))
               /\ batchSeq.seq[i].state = batchEndSequence =>
                    batchSeq'.seq[i] = batchSeq.seq[i]
     /\ call'.name = "update" =>
          LET d == removedBy(batchSeq.seq, call'.arg[1])
          IN \A i \in (seqLen - d + 1)..seqLen :
               LET upTo == IF i = seqLen - d + 1 THEN batchSeq.seq[seqLen].begin
                           ELSE batchSeq'.seq[i - 1].begin
               IN upTo <= minimum(batchSeq) => batchSeq'.seq[i] = sentinel(upTo)]_vars

\* ------------------------------------------------------ import failures
\* The window holds batch b as it is.
holds(sq, b) == \E i \in 1..Len(sq) : sq[i] = b

\* C16: in a pass of importBatches over the importable prefix, a failed
\* import leaves the batch in the window as ErrRetryable with its range,
\* nothing below it is imported in that pass, the batches of the prefix
\* below it stay Importable, and the next sequence() returns the failed
\* batch as Sequenced; an imported batch is compacted out of the window.
C16_ImportFailure ==
  [][(pc = "import" /\ pc' = "moveMinimum") =>
       LET imp == importable(batchSeq)
           n == Len(imported') - Len(imported)
           sq == batchSeq'.seq
           failed == n > 0 /\ ~imported'[Len(imported')].ok
           k == IF failed THEN n - 1 ELSE n
       IN /\ n <= Len(imp)
          /\ \A j \in 1..n : imported'[Len(imported) + j].b = imp[j]
          /\ \A j \in 1..n : imported'[Len(imported) + j].ok = (j <= k)
          /\ ~failed => n = Len(imp)
          /\ failed =>
               /\ holds(sq, withState(imp[n], batchErrRetryable))
               /\ \A j \in (n + 1)..Len(imp) : holds(sq, imp[j])
               /\ \E m \in 1..Len(sequence(batchSeq').ret) :
                    sequence(batchSeq').ret[m] = withState(imp[n], batchSequenced)
          /\ \A j \in 1..k :
               \A i \in 1..Len(sq) :
                 replaces(sq[i], imp[j])
                   => sq[i].state \notin {batchImportable, batchImportComplete}]_vars

\* ---------------------------------------------- sequence at the sentinel
\* The states sequence() acts on.
schedulable == {batchNil, batchInit, batchErrRetryable}

unfinished(sq) ==
  \E i \in 1..Len(sq) :
    sq[i].state \in {batchSequenced, batchImportable, batchErrRetryable}

\* C18 (as stated): when the driver leaves the loop no window entry is
\* Sequenced, Importable or ErrRetryable, and sequence() does not hand the
\* sentinel to the pool while a batch of the window is unfinished.
C18_ExitOnlyWhenDrained ==
  [][/\ pc' = "exited" => ~unfinished(batchSeq'.seq)
     /\ endSeq' # endSeq => ~unfinished(batchSeq'.seq)]_vars

\* C18 (amended): when the driver has observed errEndSequence from
\* pool.Complete and left the loop, no window entry is Sequenced, Importable
\* or ErrRetryable and no batch is outstanding in the pool.
C18_DrainedAtExit ==
  pc = "exited" => (~unfinished(batchSeq.seq) /\ outstanding = <<>>)

\* C18 witness: the driver left the loop after the sentinel had been handed
\* to the pool while a batch was still being fetched.
C18_Witness ==
  /\ pc = "exited"
  /\ Len(endSeq) >= 2
  /\ Len(importedOk) >= 2
  /\ \A k \in 1..Len(handed) : handed[k].begin < handed[k].end

\* ------------------------------------------------------------- the workers
\* The number of batches of sequence bs with the range of b.
countRange(bs, b) == Cardinality({k \in 1..Len(bs) : replaces(bs[k], b)})

\* Worker w holds a batch it has received and not yet sent.
holding(w) == w \in DOMAIN workers /\ workers[w] # idle

inFlight ==
  \E i \in 1..seqLen :
    /\ batchSeq.seq[i].state = batchSequenced
    /\ \E k \in 1..Len(outstanding) : replaces(outstanding[k], batchSeq.seq[i])

\* C20: whenever the driver is about to wait in pool.Complete, a batch is
\* outstanding in the pool or the sentinel has been handed to it; after a
\* scheduleTodos that got errMaxBatches a batch is outstanding.
C20_NeverWaitsIdle ==
  pc = "complete" =>
    /\ inFlight \/ endSeq # <<>>
    /\ call.err = errMaxBatches => inFlight

\* C20 witness: scheduleTodos got errMaxBatches with a fetched batch held
\* back by the batch above it, which is still with the pool.
C20_Witness ==
  /\ pc = "complete"
  /\ call.name = "sequence"
  /\ call.err = errMaxBatches
  /\ endSeq = <<>>
  /\ seqLen >= 2
  /\ batchSeq.seq[1].state = batchSequenced
  /\ batchSeq.seq[2].state = batchImportable
  /\ batchSeq.seq[2].begin < batchSeq.seq[2].end

====
